---- MODULE Spec2Model ----
(***************************************************************************)
(* A model of the BMP codec and the pixel-grid editing operations of       *)
(* src/src/lib.rs (imageManip).                                            *)
(*                                                                         *)
(* Byte sequences are TLA+ sequences of numbers in 0..255.  The source     *)
(* indexes from 0 and TLA+ from 1: the source's v[i] is v[i + 1] here, and *)
(* the source's slice v[a..b] is Slice(v, a, b).                           *)
(* A panic of the Rust program (a slice or an index out of range, an       *)
(* arithmetic overflow in a debug build) ends the run: pc = "panic".       *)
(***************************************************************************)
EXTENDS Integers, Sequences, FiniteSets, TLC

VARIABLES
    bytes,              \* the content of the file handed to try_from
    pc,                 \* "start" | "decoded" | "encoded" | "panic"
    header,             \* BmpFile.header (a Header record) once decoded
    pixels,             \* BmpFile.pixels: columns, each a sequence of Pixel
    pixel_array_index,  \* the byte cursor of try_from when it returned
    out,                \* the bytes produced by Vec::<u8>::from(BmpFile)
    nEdits,             \* number of painting calls made so far
    lastOp,             \* the last editing call: <<name, pos, thickness>>
    mirrorHist          \* the grids along the current run of mirror calls

vars == <<bytes, pc, header, pixels, pixel_array_index, out, nEdits, lastOp, mirrorHist>>

-----------------------------------------------------------------------------
(* Bounds of the model *)

MaxWidth == 4

MaxHeight == 2

MaxEdits == 1

MaxMirrorRun == 2

MaxThickness == 3

TailLen == 100

(* Program constants *)

HeaderLen == 138

FixedLen == 46

-----------------------------------------------------------------------------
(* Helpers *)

Slice(v, a, b) == SubSeq(v, a + 1, b)

SliceFrom(v, a) == SubSeq(v, a + 1, Len(v))

Min(S) == CHOOSE m \in S : \A n \in S : m <= n

RECURSIVE Concat(_)
Concat(ss) == IF ss = <<>> THEN <<>> ELSE Head(ss) \o Concat(Tail(ss))

-----------------------------------------------------------------------------
(* byteorder::LittleEndian and the integer to_le_bytes conversions.        *)
(* The inputs of the model keep every u32 below 2^31.                      *)

read_u16(b) == b[1] + 256 * b[2]

read_u32(b) == b[1] + 256 * b[2] + 65536 * b[3] + 16777216 * b[4]

read_i32(b) ==
    b[1] + 256 * b[2] + 65536 * b[3]
    + 16777216 * (IF b[4] >= 128 THEN b[4] - 256 ELSE b[4])

to_le_bytes16(v) == << v % 256, (v \div 256) % 256 >>

to_le_bytes32(v) ==
    << v % 256, (v \div 256) % 256, (v \div 65536) % 256, (v \div 16777216) % 256 >>

\* `as usize` of a non-negative i32, and `as i32` of a usize below 2^31
AsUsize(v) == v

AsI32(v) == v

-----------------------------------------------------------------------------
(* Pixel and Color *)

ColorData(b, g, r) == [tag |-> "ColorData", b |-> b, g |-> g, r |-> r]

Padding == [tag |-> "Padding"]

\* impl From<Color> for Pixel, impl From<&Color> for Pixel
PixelFromColor(color) == ColorData(color[1], color[2], color[3])

\* impl From<&Pixel> for Color
ColorFromPixel(pixel) ==
    IF pixel.tag = "ColorData" THEN << pixel.b, pixel.g, pixel.r >> ELSE << 0, 0, 0 >>

\* the bytes pixel2d_to_bytes pushes for one cell
PixelBytes(pixel) ==
    IF pixel.tag = "ColorData" THEN << pixel.b, pixel.g, pixel.r >> ELSE << 0 >>

\* Pixel::pixel2d_to_bytes: row by row, every column in storage order
pixel2d_to_bytes(grid) ==
    Concat([y \in 1..Len(grid[1]) |->
              Concat([x \in 1..Len(grid) |-> PixelBytes(grid[x][y])])])

-----------------------------------------------------------------------------
(* Header *)

\* impl From<Vec<u8>> for Header
HeaderFrom(h) ==
    [ bmp_ident        |-> Slice(h, 0, 2),
      file_size        |-> read_u32(Slice(h, 2, 6)),
      reserved1        |-> Slice(h, 6, 8),
      reserved2        |-> Slice(h, 8, 10),
      offset           |-> read_u32(Slice(h, 10, 14)),
      header_size      |-> read_u32(Slice(h, 14, 18)),
      width            |-> AsUsize(read_i32(Slice(h, 18, 22))),
      height           |-> AsUsize(read_i32(Slice(h, 22, 26))),
      color_planes     |-> read_u16(Slice(h, 26, 28)),
      bits_per_pixel   |-> read_u16(Slice(h, 28, 30)),
      compression      |-> read_u32(Slice(h, 30, 34)),
      pixel_image_size |-> read_u32(Slice(h, 34, 38)),
      hres             |-> read_i32(Slice(h, 38, 42)),
      vres             |-> read_i32(Slice(h, 42, 46)),
      gap              |-> SliceFrom(h, FixedLen) ]

\* impl From<Header> for Vec<u8>: the 46 fixed bytes, then the gap
HeaderToBytes(hd) ==
    LET file_size        == to_le_bytes32(hd.file_size)
        offset           == to_le_bytes32(hd.offset)
        header_size      == to_le_bytes32(hd.header_size)
        width            == to_le_bytes32(AsI32(hd.width))
        height           == to_le_bytes32(AsI32(hd.height))
        color_planes     == to_le_bytes16(hd.color_planes)
        bits_per_pixel   == to_le_bytes16(hd.bits_per_pixel)
        compression      == to_le_bytes32(hd.compression)
        pixel_image_size == to_le_bytes32(hd.pixel_image_size)
        hres             == to_le_bytes32(hd.hres)
        vres             == to_le_bytes32(hd.vres)
    IN  << hd.bmp_ident[1], hd.bmp_ident[2],
           file_size[1], file_size[2], file_size[3], file_size[4],
           hd.reserved1[1], hd.reserved1[2],
           hd.reserved2[1], hd.reserved2[2],
           offset[1], offset[2], offset[3], offset[4],
           header_size[1], header_size[2], header_size[3], header_size[4],
           width[1], width[2], width[3], width[4],
           height[1], height[2], height[3], height[4],
           color_planes[1], color_planes[2],
           bits_per_pixel[1], bits_per_pixel[2],
           compression[1], compression[2], compression[3], compression[3],
           pixel_image_size[1], pixel_image_size[2], pixel_image_size[2],
           pixel_image_size[2],
           hres[1], hres[2], hres[3], hres[3],
           vres[1], vres[2], vres[3], vres[3] >>
        \o hd.gap

-----------------------------------------------------------------------------
(* BmpFile: TryFrom<File> and From<BmpFile> for Vec<u8> *)

\* lines 208-211
RowPadding(width) == IF ((width * 3) % 4) # 0 THEN 4 - ((width * 3) % 4) ELSE 0

\* lines 217-230: one pass of the outer loop per scanline.  `idx` is
\* pixel_array_index; a read of pixel_array[idx] needs idx < Len(pa).
RECURSIVE DecodeRows(_, _, _, _, _)
DecodeRows(pa, width, rowsLeft, grid, idx) ==
    IF rowsLeft = 0
    THEN [ok |-> TRUE, pixels |-> grid, idx |-> idx]
    ELSE LET ncols    == Len(grid)
             padding  == ncols - width
             lastRead == idx + 3 * (ncols - 1)
         IN  IF ncols > 0 /\ lastRead >= Len(pa)
             THEN [ok |-> FALSE, pixels |-> grid, idx |-> idx]
             ELSE LET \* for column in &mut pixels: every column, padding ones too
                      colored == [c \in 1..ncols |->
                                    Append(grid[c],
                                           ColorData(pa[idx + 3 * (c - 1) - 2 + 1],
                                                     pa[idx + 3 * (c - 1) - 1 + 1],
                                                     pa[idx + 3 * (c - 1) + 1]))]
                      \* for column in &mut pixels[width..width + padding]
                      padded  == [c \in 1..ncols |->
                                    IF c > width THEN Append(colored[c], Padding)
                                                 ELSE colored[c]]
                  IN  DecodeRows(pa, width, rowsLeft - 1, padded,
                                 idx + 3 * ncols + padding)

\* TryFrom<File> for BmpFile
TryFrom(file) ==
    IF Len(file) < HeaderLen
    THEN [ok |-> FALSE]
    ELSE LET hd == HeaderFrom(Slice(file, 0, HeaderLen))
             fpp == hd.offset
         IN  IF fpp > Len(file)
             THEN [ok |-> FALSE]
             ELSE LET pixel_array == SliceFrom(file, fpp)
                      padding == RowPadding(hd.width)
                      empty == [c \in 1..(hd.width + padding) |-> <<>>]
                      res == DecodeRows(pixel_array, hd.width, hd.height, empty, 2)
                  IN  [ok |-> res.ok, header |-> hd, pixels |-> res.pixels,
                       idx |-> res.idx]

\* From<BmpFile> for Vec<u8>
BmpToBytes(hd, grid) == HeaderToBytes(hd) \o pixel2d_to_bytes(grid)

-----------------------------------------------------------------------------
(* Input files *)

\* a sample of header field values: declared pixel-data size and resolution
HeaderSamples ==
    { [pis |-> 0,   res |-> 2835],
      [pis |-> 300, res |-> 0],
      [pis |-> 0,   res |-> 16777216] }

Offsets == {54, 138}

GapByte(i) == 1 + ((i * 7) % 250)

PixByte(i) == 1 + ((i * 37 + 11) % 251)

TailByte(i) == 20 + ((i * 13 + 5) % 200)

\* a 24-bit uncompressed BMP file of w x h pixels whose pixel array starts at
\* `off`, followed by `tail` further bytes
MakeFile(w, h, off, tail, hs) ==
    LET p == (4 - ((3 * w) % 4)) % 4
        row == 3 * w + p
        total == off + h * row + tail
        fixed == << 66, 77 >> \o to_le_bytes32(total) \o << 0, 0, 0, 0 >>
                 \o to_le_bytes32(off) \o to_le_bytes32(off - 14)
                 \o to_le_bytes32(w) \o to_le_bytes32(h)
                 \o to_le_bytes16(1) \o to_le_bytes16(24)
                 \o to_le_bytes32(0) \o to_le_bytes32(hs.pis)
                 \o to_le_bytes32(hs.res) \o to_le_bytes32(hs.res)
        gap == [i \in 1..(off - FixedLen) |-> GapByte(i)]
        pix == [i \in 1..(h * row) |->
                  IF ((i - 1) % row) < 3 * w THEN PixByte(i) ELSE 0]
        tl  == [i \in 1..tail |-> TailByte(i)]
    IN  fixed \o gap \o pix \o tl

CodecFiles ==
    { MakeFile(w, h, off, tail, hs) :
        w \in 1..MaxWidth, h \in 1..MaxHeight, off \in Offsets,
        tail \in {0, TailLen}, hs \in HeaderSamples }

-----------------------------------------------------------------------------
(* The state machine *)

NoOp == << "none", 0, 0 >>

\* no BmpFile exists before try_from returns one
NoHeader ==
    [ bmp_ident |-> << 0, 0 >>, file_size |-> 0, reserved1 |-> << 0, 0 >>,
      reserved2 |-> << 0, 0 >>, offset |-> 0, header_size |-> 0, width |-> 0,
      height |-> 0, color_planes |-> 0, bits_per_pixel |-> 0, compression |-> 0,
      pixel_image_size |-> 0, hres |-> 0, vres |-> 0, gap |-> <<>> ]

InitWith(files) ==
    /\ bytes \in files
    /\ pc = "start"
    /\ header = NoHeader
    /\ pixels = <<>>
    /\ pixel_array_index = 0
    /\ out = <<>>
    /\ nEdits = 0
    /\ lastOp = NoOp
    /\ mirrorHist = <<>>

\* BmpFile::try_from(file)
Decode ==
    /\ pc = "start"
    /\ LET res == TryFrom(bytes)
       IN  IF res.ok
           THEN /\ pc' = "decoded"
                /\ header' = res.header
                /\ pixels' = res.pixels
                /\ pixel_array_index' = res.idx
           ELSE /\ pc' = "panic"
                /\ UNCHANGED <<header, pixels, pixel_array_index>>
    /\ UNCHANGED <<bytes, out, nEdits, lastOp, mirrorHist>>

\* Vec::from(bmp)
Encode ==
    /\ pc = "decoded"
    /\ out' = BmpToBytes(header, pixels)
    /\ pc' = "encoded"
    /\ UNCHANGED <<bytes, header, pixels, pixel_array_index, nEdits, lastOp, mirrorHist>>

-----------------------------------------------------------------------------
(* Editing operations (impl BmpFile) *)

\* the colours the callers pass
Colors == { << 255, 255, 255 >>, << 10, 20, 30 >> }

\* the files the editing runs start from: pixel array at offset 138
EditFiles ==
    { MakeFile(w, h, HeaderLen, tail, [pis |-> 0, res |-> 2835]) :
        w \in 1..MaxWidth, h \in 1..MaxHeight, tail \in {0, TailLen} }

\* self.pixels[x][y] exists (x, y counted from 0)
InGrid(grid, cell) ==
    /\ cell[1] >= 0 /\ cell[1] < Len(grid)
    /\ cell[2] >= 0 /\ cell[2] < Len(grid[cell[1] + 1])

\* self.pixels[x][y] = px for the cells in loop order; the first cell that
\* is not in the grid panics, the writes made before it stay
PaintCells(grid, cells, px) ==
    LET bad == { k \in DOMAIN cells : ~InGrid(grid, cells[k]) }
        n   == IF bad = {} THEN Len(cells) ELSE Min(bad) - 1
    IN  [ ok     |-> bad = {},
          pixels |-> [x \in DOMAIN grid |-> [y \in DOMAIN grid[x] |->
                        IF \E k \in 1..n : cells[k] = << x - 1, y - 1 >>
                        THEN px ELSE grid[x][y]]] ]

\* a range that starts a whole thickness before pos
LineStartUnhalved(pos, thickness) == pos - thickness

\* a range that includes its upper end
LineEndInclusive(pos, thickness) == pos + (thickness \div 2) + 1

\* the range of draw_vline / draw_hline: pos - thickness/2 .. pos + thickness/2
LineStart(pos, thickness) == pos - (thickness \div 2)

LineEnd(pos, thickness) == pos + (thickness \div 2)

\* for column in start..end { for row in 0..height }
VlineCells(start, end, height) ==
    [k \in 1..((end - start) * height) |->
        << start + ((k - 1) \div height), (k - 1) % height >>]

\* for row in start..end { for column in 0..width }
HlineCells(start, end, width) ==
    [k \in 1..((end - start) * width) |->
        << (k - 1) % width, start + ((k - 1) \div width) >>]

\* for y in 0..height { for x in 0..width }
AllCells(width, height) ==
    [k \in 1..(width * height) |-> << (k - 1) % width, (k - 1) \div width >>]

\* for y in 0..height { for i in 0..width / 2 }
MirrorCells(width, height) ==
    [k \in 1..((width \div 2) * height) |->
        << (k - 1) % (width \div 2), (k - 1) \div (width \div 2) >>]

\* a step that exchanges the two cells
MirrorStepSwap(grid, width, i, y) ==
    [grid EXCEPT ![width - i - 1 + 1][y + 1] = grid[i + 1][y + 1],
                 ![i + 1][y + 1] = grid[width - i - 1 + 1][y + 1]]

\* line 282: self.pixels[width - i - 1][y] = self.pixels[i][y].clone()
MirrorStep(grid, width, i, y) ==
    [grid EXCEPT ![width - i - 1 + 1][y + 1] = grid[i + 1][y + 1]]

RECURSIVE MirrorLoop(_, _, _)
MirrorLoop(grid, width, cells) ==
    IF cells = <<>> THEN grid
    ELSE MirrorLoop(MirrorStep(grid, width, Head(cells)[1], Head(cells)[2]),
                    width, Tail(cells))

\* impl Mul<f64> for Color with rhs = num / den as f64: 0/0 is NaN, which
\* clamp() passes through and `as u8` turns into 0; otherwise the product is
\* within 0..255 and `as u8` truncates it
ColorMul(color, num, den) ==
    IF den = 0 THEN << 0, 0, 0 >>
    ELSE << (color[1] * num) \div den, (color[2] * num) \div den,
            (color[3] * num) \div den >>

\* lines 289-291
FadeCell(pixel, x, width) ==
    PixelFromColor(ColorMul(ColorFromPixel(pixel), x, width - 1))

\* what every editing call does to the bookkeeping
Edited(name, pos, thickness, ok, grid) ==
    /\ pc' = IF ok THEN "decoded" ELSE "panic"
    /\ pixels' = grid
    /\ lastOp' = << name, pos, thickness >>
    /\ UNCHANGED <<bytes, header, pixel_array_index, out>>

\* a painting call (any editing call but the mirror) ends a run of mirror calls
CanPaint == pc = "decoded" /\ nEdits < MaxEdits

Painted == nEdits' = nEdits + 1 /\ mirrorHist' = <<>>

change_pixel(x, y, color) ==
    /\ CanPaint
    /\ Painted
    /\ IF InGrid(pixels, << x, y >>)
       THEN Edited("change_pixel", 0, 0, TRUE,
                   [pixels EXCEPT ![x + 1][y + 1] = PixelFromColor(color)])
       ELSE Edited("change_pixel", 0, 0, FALSE, pixels)

draw_vline(pos, thickness, color) ==
    /\ CanPaint
    /\ Painted
    /\ IF LineStart(pos, thickness) < 0
       THEN \* usize underflow: a panic with overflow checks on; without them
            \* the start wraps above the end and the range is empty
            \/ Edited("draw_vline", pos, thickness, FALSE, pixels)
            \/ Edited("draw_vline", pos, thickness, TRUE, pixels)
       ELSE LET res == PaintCells(pixels,
                                  VlineCells(LineStart(pos, thickness),
                                             LineEnd(pos, thickness), header.height),
                                  PixelFromColor(color))
            IN  Edited("draw_vline", pos, thickness, res.ok, res.pixels)

draw_hline(pos, thickness, color) ==
    /\ CanPaint
    /\ Painted
    /\ IF LineStart(pos, thickness) < 0
       THEN \/ Edited("draw_hline", pos, thickness, FALSE, pixels)
            \/ Edited("draw_hline", pos, thickness, TRUE, pixels)
       ELSE LET res == PaintCells(pixels,
                                  HlineCells(LineStart(pos, thickness),
                                             LineEnd(pos, thickness), header.width),
                                  PixelFromColor(color))
            IN  Edited("draw_hline", pos, thickness, res.ok, res.pixels)

\* the cells it reads and writes are in columns below width and rows below
\* height, which try_from filled: no index is out of range (RegularColumns)
mirror_horizontal_left ==
    /\ pc = "decoded"
    /\ Len(mirrorHist) < MaxMirrorRun + 1
    /\ LET grid == MirrorLoop(pixels, header.width,
                              MirrorCells(header.width, header.height))
       IN  /\ Edited("mirror_horizontal_left", 0, 0, TRUE, grid)
           /\ mirrorHist' = IF mirrorHist = <<>> THEN << pixels, grid >>
                            ELSE Append(mirrorHist, grid)
    /\ UNCHANGED nEdits

vertical_fade_left ==
    /\ CanPaint
    /\ Painted
    /\ Edited("vertical_fade_left", 0, 0, TRUE,
              [x \in DOMAIN pixels |-> [y \in DOMAIN pixels[x] |->
                 IF x <= header.width /\ y <= header.height
                 THEN FadeCell(pixels[x][y], x - 1, header.width)
                 ELSE pixels[x][y]]])

make_red ==
    /\ CanPaint
    /\ Painted
    /\ LET res == PaintCells(pixels, AllCells(header.width, header.height),
                             PixelFromColor(<< 0, 0, 255 >>))
       IN  Edited("make_red", 0, 0, res.ok, res.pixels)

make_blue ==
    /\ CanPaint
    /\ Painted
    /\ LET res == PaintCells(pixels, AllCells(header.width, header.height),
                             PixelFromColor(<< 255, 0, 0 >>))
       IN  Edited("make_blue", 0, 0, res.ok, res.pixels)

Init == InitWith(EditFiles)

Next ==
    \/ Decode
    \/ \E x \in 0..Len(pixels), y \in 0..header.height, c \in Colors :
          change_pixel(x, y, c)
    \/ \E pos \in 0..header.width, t \in 0..MaxThickness, c \in Colors :
          draw_vline(pos, t, c)
    \/ \E pos \in 0..header.height, t \in 0..MaxThickness, c \in Colors :
          draw_hline(pos, t, c)
    \/ mirror_horizontal_left
    \/ vertical_fade_left
    \/ make_red
    \/ make_blue
    \/ Encode

Spec == Init /\ [][Next]_vars

InitCodec == InitWith(CodecFiles)

NextCodec == Decode \/ Encode

SpecCodec == InitCodec /\ [][NextCodec]_vars

-----------------------------------------------------------------------------
(* Properties *)

\* the row padding of the BMP format, as the specification writes it
FormatPadding(w) == (4 - ((3 * w) % 4)) % 4

FormatRow(w) == 3 * w + FormatPadding(w)

Decoded == pc \in {"decoded", "encoded"}

\* the grid try_from built from the input file
DecodedGrid == TryFrom(bytes).pixels

\* the file is exactly the header region, then height scanlines of
\* 3 * width + padding bytes, with the declared pixel-array size 0 or exact
WellFormedFile(b) ==
    /\ Len(b) >= FixedLen
    /\ LET off == read_u32(Slice(b, 10, 14))
           w   == read_i32(Slice(b, 18, 22))
           h   == read_i32(Slice(b, 22, 26))
           pis == read_u32(Slice(b, 34, 38))
       IN  /\ off >= FixedLen
           /\ Len(b) = off + h * FormatRow(w)
           /\ pis \in {0, h * FormatRow(w)}

\* C1: decoding a well-formed 24-bit BMP byte sequence and encoding the image
\* at once, with no edit, yields the same byte sequence.
C1_ByteExactRoundTrip ==
    WellFormedFile(bytes) =>
        /\ pc # "panic"
        /\ pc = "encoded" => out = bytes

\* C2: encoding the Header decoded from a header byte sequence h (the 46
\* fixed bytes, then the gap up to pixel_data_offset) yields exactly h.
C2_HeaderRoundTrip ==
    (pc = "encoded" /\ header.offset = HeaderLen) =>
        Slice(out, 0, HeaderLen) = Slice(bytes, 0, HeaderLen)

\* C3: decode consumes exactly 3 * width + row_padding bytes per scanline,
\* height * (3 * width + row_padding) bytes in all, reading width BGR triples
\* and then row_padding filler bytes per scanline.
C3_BytesConsumed ==
    Decoded =>
        /\ pixel_array_index - 2 = header.height * FormatRow(header.width)
        /\ \A x \in 1..header.width : \A y \in 1..header.height :
             LET at == (y - 1) * FormatRow(header.width) + 3 * (x - 1)
             IN  DecodedGrid[x][y] =
                   ColorData(bytes[header.offset + at + 1],
                             bytes[header.offset + at + 2],
                             bytes[header.offset + at + 3])

\* C4 as stated: two mirror calls in succession give back the original grid.
C4_MirrorInvolution ==
    \A k \in 1..(Len(mirrorHist) - 2) : mirrorHist[k + 2] = mirrorHist[k]

\* the grid one mirror call makes of `before`: column width-1-i takes the
\* values of column i (i < width / 2), every other column stays
MirrorCopy(before, width) ==
    [x \in DOMAIN before |->
        IF x <= width /\ x - 1 >= width - (width \div 2)
        THEN before[width - x + 1] ELSE before[x]]

\* C4 as amended: a second mirror call in succession leaves the grid as the
\* first one left it, because each call copies column i onto column
\* width-1-i (i < width / 2) and leaves column i as it was.
C4_MirrorIdempotent ==
    /\ \A k \in 1..(Len(mirrorHist) - 1) :
         mirrorHist[k + 1] = MirrorCopy(mirrorHist[k], header.width)
    /\ \A k \in 1..(Len(mirrorHist) - 2) : mirrorHist[k + 2] = mirrorHist[k + 1]

\* two mirror calls in succession were made on a grid the first one changed
C4_Witness ==
    /\ pc = "decoded"
    /\ Len(mirrorHist) = 3
    /\ mirrorHist[2] # mirrorHist[1]
    /\ pixels = mirrorHist[3]

\* C5: with thickness >= 2 and the column range inside [0, width),
\* draw_vline(pos, thickness, color) sets every cell of the columns
\* pos - thickness/2 up to but excluding pos + thickness/2, in all rows, to
\* color, and leaves every cell of every other column as it was.
C5_VerticalLine ==
    [][\A pos \in 0..MaxWidth, t \in 2..MaxThickness, c \in Colors :
         ( /\ lastOp' = << "draw_vline", pos, t >>
           /\ pos - (t \div 2) >= 0
           /\ pos + (t \div 2) <= header.width
           /\ draw_vline(pos, t, c) )
         => /\ pc' = "decoded"
            /\ pixels' =
                 [x \in DOMAIN pixels |-> [y \in DOMAIN pixels[x] |->
                    IF /\ x - 1 >= pos - (t \div 2)
                       /\ x - 1 < pos + (t \div 2)
                       /\ y - 1 < header.height
                    THEN PixelFromColor(c) ELSE pixels[x][y]]]
      ]_vars

\* draw_vline(2, 2, white) has painted columns 1 and 2 of a freshly decoded
\* 4 x 2 image; columns 0 and 3 are as decoded
C5_Witness ==
    /\ pc = "decoded"
    /\ lastOp = << "draw_vline", 2, 2 >>
    /\ header.width = 4 /\ header.height = 2
    /\ nEdits = 1
    /\ \A y \in 1..2 :
         /\ pixels[2][y] = ColorData(255, 255, 255)
         /\ pixels[3][y] = ColorData(255, 255, 255)
         /\ pixels[1][y] = DecodedGrid[1][y]
         /\ pixels[4][y] = DecodedGrid[4][y]
         /\ DecodedGrid[2][y] # ColorData(255, 255, 255)

\* C6: change_pixel(x, y, color) with x >= width or y >= height fails and
\* leaves the grid as it was; it never succeeds.
C6_OutOfBoundsFails ==
    [][\A x \in 0..(MaxWidth + 3), y \in 0..MaxHeight, c \in Colors :
         ( /\ lastOp'[1] = "change_pixel"
           /\ (x >= header.width \/ y >= header.height)
           /\ change_pixel(x, y, c) )
         => (pc' = "panic" /\ pixels' = pixels)
      ]_vars

\* the pixel array of the encoded file: what follows the header region
EmittedPixelArray == SliceFrom(out, FixedLen + Len(header.gap))

\* C7: after make_blue and then the encoding, every colour pixel of the
\* emitted pixel array is the bytes (255, 0, 0) and every row-padding byte
\* is zero.
C7_FillThenEncode ==
    (pc = "encoded" /\ lastOp[1] = "make_blue") =>
        LET w   == header.width
            row == FormatRow(w)
            pa  == EmittedPixelArray
        IN  /\ Len(pa) >= header.height * row
            /\ \A r \in 0..(header.height - 1) :
                 /\ \A x \in 0..(w - 1) :
                      /\ pa[r * row + 3 * x + 1] = 255
                      /\ pa[r * row + 3 * x + 2] = 0
                      /\ pa[r * row + 3 * x + 3] = 0
                 /\ \A k \in 0..(FormatPadding(w) - 1) :
                      pa[r * row + 3 * w + k + 1] = 0

\* C8: after decode and after any editing calls the grid has
\* width + row_padding columns, every column below width holds exactly
\* height ColorData entries and every other column exactly height Padding
\* entries.
C8_GridShape ==
    Decoded =>
        /\ Len(pixels) = header.width + FormatPadding(header.width)
        /\ \A x \in 1..Len(pixels) :
             /\ Len(pixels[x]) = header.height
             /\ \A y \in 1..Len(pixels[x]) :
                  pixels[x][y].tag = IF x <= header.width THEN "ColorData"
                                                          ELSE "Padding"

\* C9 as stated: with thickness 0 or 1 draw_vline paints the whole column
\* pos, and draw_hline the whole row pos.
C9_ThinLinePaints ==
    [][\A pos \in 0..MaxWidth, t \in {0, 1}, c \in Colors :
         /\ ( /\ lastOp' = << "draw_vline", pos, t >> /\ pos < header.width
              /\ draw_vline(pos, t, c) )
              => \A y \in 1..header.height : pixels'[pos + 1][y] = PixelFromColor(c)
         /\ ( /\ lastOp' = << "draw_hline", pos, t >> /\ pos < header.height
              /\ draw_hline(pos, t, c) )
              => \A x \in 1..header.width : pixels'[x][pos + 1] = PixelFromColor(c)
      ]_vars

\* C9 as amended: with thickness 0 or 1 the range pos .. pos is empty:
\* draw_vline and draw_hline return normally and leave the grid unchanged.
C9_ThinLineUnchanged ==
    [][\A pos \in 0..MaxWidth, t \in {0, 1}, c \in Colors :
         /\ ( /\ lastOp' = << "draw_vline", pos, t >> /\ pos < header.width
              /\ draw_vline(pos, t, c) )
              => (pc' = "decoded" /\ pixels' = pixels)
         /\ ( /\ lastOp' = << "draw_hline", pos, t >> /\ pos < header.height
              /\ draw_hline(pos, t, c) )
              => (pc' = "decoded" /\ pixels' = pixels)
      ]_vars

\* draw_vline(1, 1, color) has returned on a freshly decoded image of two or
\* more columns, and the grid is the decoded one
C9_Witness ==
    /\ pc = "decoded"
    /\ lastOp = << "draw_vline", 1, 1 >>
    /\ header.width >= 2
    /\ nEdits = 1
    /\ pixels = DecodedGrid

\* C10: the decoded Header has pixel_data_offset = 46 + len(gap), so the
\* encoded header is pixel_data_offset bytes long and the pixel array is
\* emitted from byte pixel_data_offset on.
C10_GapInvariant ==
    (Decoded /\ header.offset >= FixedLen) =>
        /\ header.offset = FixedLen + Len(header.gap)
        /\ header.gap = Slice(bytes, FixedLen, header.offset)
        /\ pc = "encoded" =>
             SliceFrom(out, header.offset) = pixel2d_to_bytes(pixels)

====
